---- MODULE Spec2Model ----
(***************************************************************************)
(* Model of the face verification service of src/verification/app.py:     *)
(* the /verify handler, save_base64_image, extract_face and match_faces,  *)
(* run by several requests at once over one shared uploads folder.        *)
(*                                                                         *)
(* Strings that the code builds by concatenation (file names, paths) are  *)
(* sequences of tokens, so that str.replace and os.path.join are computed *)
(* rather than assumed.  A distance d of the scorer is modelled by the    *)
(* integer 100 * d.                                                        *)
(***************************************************************************)
EXTENDS Integers, Sequences, FiniteSets, TLC

\* ------------------------------------------------------------------ bounds
NumReq == 2

Reqs == 1..NumReq

\* ------------------------------------------------------------- constants
UPLOAD_FOLDER == <<"uploads">>
SIMILARITY_THRESHOLD == 55

\* HTTP statuses
BAD_REQUEST == 400
SERVER_ERROR == 500
OK_STATUS == 200

\* return jsonify(...), 400 after a failed save_base64_image
SaveErrorStatus == BAD_REQUEST

\* faulty variant: the result of match_faces answered like a save error
MatchStatusClientError == BAD_REQUEST

\* return jsonify(result): the result of match_faces goes out with the default
\* status
MatchStatus == OK_STATUS

\* ---------------------------------------------------------------- inputs
Fields == {"userId", "license_base64", "selfie_base64"}

\* faulty variant: the check of line 114 without its selfie_base64 test
RequiredFieldsNoSelfie == {"userId", "license_base64"}

RequiredFields == {"userId", "license_base64", "selfie_base64"}

\* What a base64 field of the payload holds:
\*   bad_base64  b64decode (or the write) raises
\*   not_image   decodes to bytes that cv2.imread cannot read
\*   no_face     decodes to an image in which the cascade finds no face
\*   face        decodes to an image with at least one face
ImageClasses == {"bad_base64", "not_image", "no_face", "face"}
Absent == "absent"

\* user ids are sequences of characters; the one used holds a "." so that the
\* replace of extract_face meets a dot outside the extension
UserIds == {<<"a", ".", "b">>}
NoUser == <<>>

\* Distances (times 100) the scorer may return
Distances == {54, 55, 56}

\* A request: a body whose content type is not JSON ("nonjson"), a JSON content
\* type whose body get_json cannot turn into a container, because it does not
\* parse or is null or a number ("malformed"), or a JSON object with any subset
\* of the three fields.  In an object that lacks a field the images present are
\* images with a face: verify returns before it reads any value.
ObjectPayloads ==
  { d \in [body : {"object"}, has : SUBSET Fields, userId : UserIds \cup {NoUser},
           license_base64 : ImageClasses \cup {Absent},
           selfie_base64 : ImageClasses \cup {Absent}] :
      /\ ("userId" \in d.has) <=> (d.userId # NoUser)
      /\ ("license_base64" \in d.has) <=> (d.license_base64 # Absent)
      /\ ("selfie_base64" \in d.has) <=> (d.selfie_base64 # Absent)
      /\ d.has # Fields =>
           {d.license_base64, d.selfie_base64} \subseteq {"face", Absent} }

NoPayload(kind) ==
  [body |-> kind, has |-> {}, userId |-> NoUser,
   license_base64 |-> Absent, selfie_base64 |-> Absent]

Payloads == ObjectPayloads \cup {NoPayload("nonjson"), NoPayload("malformed")}

\* ------------------------------------------------------ strings and paths
NoPath == <<>>

\* str(uuid.uuid4()): the identifier drawn by the n-th call; two draws differ
uuid4(n) == "uuid" \o ToString(n)

\* faulty variant: a file name without the identifier
license_filename_nouuid(user_id, unique_id) == user_id \o <<"_license", ".", "png">>

license_filename(user_id, unique_id) ==
  user_id \o <<"_", unique_id, "_license", ".", "png">>

selfie_filename(user_id, unique_id) ==
  user_id \o <<"_", unique_id, "_selfie", ".", "png">>

path_join(folder, filename) == folder \o <<"/">> \o filename

\* str.replace(".", "_cropped."): every "." of the path is replaced
RECURSIVE replace_dot(_)
replace_dot(s) ==
  IF s = <<>> THEN <<>>
  ELSE IF Head(s) = "." THEN <<"_cropped", ".">> \o replace_dot(Tail(s))
       ELSE <<Head(s)>> \o replace_dot(Tail(s))

\* faulty variant: a replace that matches nothing, the crop lands on the upload
extracted_face_path_same(image_path) == image_path

extracted_face_path(image_path) == replace_dot(image_path)

\* ------------------------------------------------------------ the folder
\* files maps each path of the uploads folder to what was last written there
Write(fs, path, content) ==
  [p \in DOMAIN fs \cup {path} |-> IF p = path THEN content ELSE fs[p]]

\* cv2.imread: None for a missing file or bytes that are no image
imread(fs, path) ==
  IF path \in DOMAIN fs /\ fs[path].img \in {"no_face", "face", "face_crop"}
  THEN <<fs[path]>> ELSE <<>>

\* ------------------------------------------------------------- responses
\* faulty variant: an error result that carries a score of 0
ErrorResultScored(message) ==
  [verified |-> FALSE, error |-> message, similarity_score |-> <<0>>]

\* {"verified": False, "error": message}
ErrorResult(message) ==
  [verified |-> FALSE, error |-> message, similarity_score |-> <<>>]

Respond(result, status) ==
  [verified |-> result.verified, error |-> result.error,
   similarity_score |-> result.similarity_score, status |-> status]

\* faulty variant: the exception is swallowed and the path returned
save_base64_image_swallow(base64_string, filename) ==
  [file_path |-> path_join(UPLOAD_FOLDER, filename), error |-> ""]

\* (file_path, None) after writing the file, or (None, str(e))
save_base64_image(base64_string, filename) ==
  IF base64_string = "bad_base64"
  THEN [file_path |-> NoPath, error |-> "<exception>"]
  ELSE [file_path |-> path_join(UPLOAD_FOLDER, filename), error |-> ""]

\* faulty variant: a strict comparison
IsVerifiedStrict(similarity_score) == similarity_score > SIMILARITY_THRESHOLD

IsVerified(similarity_score) == similarity_score >= SIMILARITY_THRESHOLD

\* lines 89-99 of match_faces
Decision(similarity_score) ==
  IF IsVerified(similarity_score)
  THEN [verified |-> TRUE, error |-> "", similarity_score |-> <<similarity_score>>]
  ELSE [verified |-> FALSE, error |-> "Face verification failed",
        similarity_score |-> <<similarity_score>>]
\* ----------------------------------------------------------- control flow
Roles == {"license", "selfie"}

ErrorPrefix(role) ==
  IF role = "license" THEN "License image error: " ELSE "Selfie image error: "

\* faulty variant: match_faces extracts the selfie face first
StageAfterSelfieFirst(stage) ==
  CASE stage = "verify" -> "save_license"
    [] stage = "save_license" -> "save_selfie"
    [] stage = "save_selfie" -> "locate_selfie"
    [] stage = "locate_selfie" -> "crop_selfie"
    [] stage = "crop_selfie" -> "locate_license"
    [] stage = "locate_license" -> "crop_license"
    [] stage = "crop_license" -> "score"
    [] stage = "score" -> "decide"
    [] OTHER -> "done"

\* faulty variant: both faces are located before either is cropped
StageAfterLocateBoth(stage) ==
  CASE stage = "verify" -> "save_license"
    [] stage = "save_license" -> "save_selfie"
    [] stage = "save_selfie" -> "locate_license"
    [] stage = "locate_license" -> "locate_selfie"
    [] stage = "locate_selfie" -> "crop_license"
    [] stage = "crop_license" -> "crop_selfie"
    [] stage = "crop_selfie" -> "score"
    [] stage = "score" -> "decide"
    [] OTHER -> "done"

\* The statement that follows a stage that succeeded: verify saves the license
\* and then the selfie; match_faces extracts the license face, then the selfie
\* face, then scores and decides.
StageAfter(stage) ==
  CASE stage = "verify" -> "save_license"
    [] stage = "save_license" -> "save_selfie"
    [] stage = "save_selfie" -> "locate_license"
    [] stage = "locate_license" -> "crop_license"
    [] stage = "crop_license" -> "locate_selfie"
    [] stage = "locate_selfie" -> "crop_selfie"
    [] stage = "crop_selfie" -> "score"
    [] stage = "score" -> "decide"
    [] OTHER -> "done"

\* faulty variant: a failure branch that does not return
StageAfterFailureContinue(stage) == StageAfter(stage)

\* Every failure branch is a return: the request ends there
StageAfterFailure(stage) == "done"

\* ------------------------------------------------------------------ state
VARIABLES
  pc,                \* pc[r]: the stage request r is about to run
  data,              \* data[r]: the payload of request r
  unique_id,         \* unique_id[r]: str(uuid.uuid4()) of request r, "" before
  image_path,        \* image_path[r][role]: license_path / selfie_path
  face_path,         \* face_path[r][role]: license_face / selfie_face
  similarity_score,  \* similarity_score[r]: <<d>> once scored
  response,          \* response[r]: <<>> or <<the response returned>>
  files,             \* the uploads folder
  trace,             \* trace[r]: the steps request r has executed, in order
  reads,             \* reads[r]: owners of the file contents r has read
  writes,            \* writes[r]: the paths r has written, in order
  answers            \* answers[r]: number of responses returned for r

vars == <<pc, data, unique_id, image_path, face_path, similarity_score,
          response, files, trace, reads, writes, answers>>

Init ==
  /\ pc = [r \in Reqs |-> "idle"]
  /\ data = [r \in Reqs |-> NoPayload("none")]
  /\ unique_id = [r \in Reqs |-> ""]
  /\ image_path = [r \in Reqs |-> [role \in Roles |-> NoPath]]
  /\ face_path = [r \in Reqs |-> [role \in Roles |-> NoPath]]
  /\ similarity_score = [r \in Reqs |-> <<>>]
  /\ response = [r \in Reqs |-> <<>>]
  /\ files = <<>>
  /\ trace = [r \in Reqs |-> <<>>]
  /\ reads = [r \in Reqs |-> {}]
  /\ writes = [r \in Reqs |-> <<>>]
  /\ answers = [r \in Reqs |-> 0]

\* return jsonify(result), status
Return(r, stage, result, status) ==
  /\ response' = [response EXCEPT ![r] = <<Respond(result, status)>>]
  /\ answers' = [answers EXCEPT ![r] = @ + 1]
  /\ pc' = [pc EXCEPT ![r] = StageAfterFailure(stage)]

Continue(r, stage) ==
  /\ pc' = [pc EXCEPT ![r] = StageAfter(stage)]
  /\ UNCHANGED <<response, answers>>

Owners(fs, paths) == { fs[p].owner : p \in paths \cap DOMAIN fs }

\* verify, lines 106-122: the request arrives, is checked and gets its
\* identifier
Verify(r) ==
  /\ pc[r] = "idle"
  /\ \E d \in Payloads :
       /\ data' = [data EXCEPT ![r] = d]
       /\ IF d.body = "nonjson"
          THEN /\ Return(r, "verify", ErrorResult("Request must be JSON"), BAD_REQUEST)
               /\ UNCHANGED unique_id
          ELSE IF d.body = "malformed"
          THEN /\ Return(r, "verify", ErrorResult("Server error: <exception>"),
                         SERVER_ERROR)
               /\ UNCHANGED unique_id
          ELSE IF ~(RequiredFields \subseteq d.has)
          THEN /\ Return(r, "verify", ErrorResult("Missing required fields"),
                         BAD_REQUEST)
               /\ UNCHANGED unique_id
          ELSE IF d.userId = NoUser
          THEN /\ Return(r, "verify", ErrorResult("Server error: <exception>"),
                         SERVER_ERROR)
               /\ UNCHANGED unique_id
          ELSE /\ unique_id' = [unique_id EXCEPT ![r] = uuid4(r)]
               /\ Continue(r, "verify")
  /\ UNCHANGED <<image_path, face_path, similarity_score, files, trace, reads, writes>>

Filename(role, user_id, uid) ==
  IF role = "license" THEN license_filename(user_id, uid)
  ELSE selfie_filename(user_id, uid)

\* verify, lines 125-127 and 129-131, with save_base64_image
SaveImage(r, role) ==
  LET stage == "save_" \o role
      field == IF role = "license" THEN data[r].license_base64
               ELSE data[r].selfie_base64
      saved == save_base64_image(field, Filename(role, data[r].userId, unique_id[r]))
  IN /\ pc[r] = stage
     /\ trace' = [trace EXCEPT ![r] = Append(@, stage)]
     /\ IF field = Absent
        THEN /\ Return(r, stage, ErrorResult("Server error: <exception>"), SERVER_ERROR)
             /\ UNCHANGED <<image_path, files, writes>>
        ELSE IF saved.error # ""
        THEN /\ Return(r, stage, ErrorResult(ErrorPrefix(role) \o saved.error),
                       SaveErrorStatus)
             /\ UNCHANGED <<image_path, files, writes>>
        ELSE /\ files' = Write(files, saved.file_path, [owner |-> r, img |-> field])
             /\ writes' = [writes EXCEPT ![r] = Append(@, saved.file_path)]
             /\ image_path' = [image_path EXCEPT ![r][role] = saved.file_path]
             /\ Continue(r, stage)
     /\ UNCHANGED <<data, unique_id, face_path, similarity_score, reads>>

SaveLicense(r) == SaveImage(r, "license")
SaveSelfie(r) == SaveImage(r, "selfie")

\* extract_face, lines 47-58, and the check of its result in match_faces
LocateFace(r, role) ==
  LET stage == "locate_" \o role
      image == imread(files, image_path[r][role])
  IN /\ pc[r] = stage
     /\ reads' = [reads EXCEPT ![r] = @ \cup Owners(files, {image_path[r][role]})]
     /\ IF image = <<>>
        THEN /\ trace' = [trace EXCEPT ![r] = Append(@, "read_" \o role)]
             /\ Return(r, stage, ErrorResult(ErrorPrefix(role) \o "Could not read image"),
                       MatchStatus)
        ELSE /\ trace' = [trace EXCEPT ![r] = @ \o <<"read_" \o role, stage>>]
             /\ IF image[1].img = "no_face"
                THEN Return(r, stage,
                            ErrorResult(ErrorPrefix(role)
                                          \o "No face detected in the image"),
                            MatchStatus)
                ELSE Continue(r, stage)
     /\ UNCHANGED <<data, unique_id, image_path, face_path, similarity_score, files,
                    writes>>

LocateLicense(r) == LocateFace(r, "license")
LocateSelfie(r) == LocateFace(r, "selfie")

\* extract_face, lines 60-68
CropFace(r, role) ==
  LET stage == "crop_" \o role
      extracted == extracted_face_path(image_path[r][role])
  IN /\ pc[r] = stage
     /\ trace' = [trace EXCEPT ![r] = Append(@, stage)]
     /\ files' = Write(files, extracted, [owner |-> r, img |-> "face_crop"])
     /\ writes' = [writes EXCEPT ![r] = Append(@, extracted)]
     /\ face_path' = [face_path EXCEPT ![r][role] = extracted]
     /\ Continue(r, stage)
     /\ UNCHANGED <<data, unique_id, image_path, similarity_score, reads>>

CropLicense(r) == CropFace(r, "license")
CropSelfie(r) == CropFace(r, "selfie")

\* match_faces, lines 85-86 and 101-102: DeepFace.verify returns a distance or
\* raises
Score(r) ==
  LET faces == {face_path[r][role] : role \in Roles}
      readable == \A p \in faces : imread(files, p) # <<>>
  IN /\ pc[r] = "score"
     /\ trace' = [trace EXCEPT ![r] = Append(@, "score")]
     /\ reads' = [reads EXCEPT ![r] = @ \cup Owners(files, faces)]
     /\ \/ /\ Return(r, "score", ErrorResult("Processing error: <exception>"),
                     MatchStatus)
           /\ UNCHANGED similarity_score
        \/ /\ readable
           /\ \E d \in Distances :
                similarity_score' = [similarity_score EXCEPT ![r] = <<d>>]
           /\ Continue(r, "score")
     /\ UNCHANGED <<data, unique_id, image_path, face_path, files, writes>>

\* match_faces, lines 89-99, and verify, line 136
Decide(r) ==
  /\ pc[r] = "decide"
  /\ trace' = [trace EXCEPT ![r] = Append(@, "decide")]
  /\ response' = [response EXCEPT ![r] =
                    <<Respond(Decision(similarity_score[r][1]), MatchStatus)>>]
  /\ answers' = [answers EXCEPT ![r] = @ + 1]
  /\ pc' = [pc EXCEPT ![r] = StageAfter("decide")]
  /\ UNCHANGED <<data, unique_id, image_path, face_path, similarity_score, files,
                 reads, writes>>

Next ==
  \E r \in Reqs :
    \/ Verify(r)
    \/ SaveLicense(r)
    \/ SaveSelfie(r)
    \/ LocateLicense(r)
    \/ CropLicense(r)
    \/ LocateSelfie(r)
    \/ CropSelfie(r)
    \/ Score(r)
    \/ Decide(r)

Spec == Init /\ [][Next]_vars
\* ----------------------------------------------------- vocabulary of the claims
Started(r) == pc[r] # "idle"
Done(r) == pc[r] = "done"
Resp(r) == response[r][1]
AllPresent(r) == data[r].body = "object" /\ data[r].has = Fields
LacksField(r) == data[r].body = "object" /\ data[r].has # Fields
InTrace(r, step) == \E i \in 1..Len(trace[r]) : trace[r][i] = step
Written(r) == { writes[r][i] : i \in 1..Len(writes[r]) }
OwnedFiles(r) == { p \in DOMAIN files : files[p].owner = r }
UploadWritten(r, role) == image_path[r][role] # NoPath
CropWritten(r, role) == face_path[r][role] # NoPath
NoDuplicates(s) == \A i, j \in 1..Len(s) : s[i] = s[j] => i = j
IsPrefix(s, t) == Len(s) <= Len(t) /\ \A i \in 1..Len(s) : s[i] = t[i]

\* The error code of the specification that an error message of the code stands for
SpecCode(message) ==
  CASE message = "" -> "none"
    [] message = "Request must be JSON" -> "NonJson"
    [] message = "Missing required fields" -> "InvalidPayload"
    [] message = "License image error: <exception>" -> "DocumentDecodeError"
    [] message = "License image error: Could not read image" -> "DocumentDecodeError"
    [] message = "Selfie image error: <exception>" -> "SelfieDecodeError"
    [] message = "Selfie image error: Could not read image" -> "SelfieDecodeError"
    [] message = "License image error: No face detected in the image"
         -> "DocumentFaceNotFound"
    [] message = "Selfie image error: No face detected in the image"
         -> "SelfieFaceNotFound"
    [] message = "Processing error: <exception>" -> "ScoringError"
    [] message = "Server error: <exception>" -> "InternalError"
    [] message = "Face verification failed" -> "BelowThreshold"
    [] OTHER -> "unknown"

Code(r) == SpecCode(Resp(r).error)

FailureCodes ==
  {"NonJson", "InvalidPayload", "DocumentDecodeError", "SelfieDecodeError",
   "DocumentFaceNotFound", "SelfieFaceNotFound", "ScoringError", "InternalError"}

Undecodable == {"bad_base64", "not_image"}

\* ------------------------------------------------------------------- C1
\* C1: a request whose JSON object lacks at least one of userId,
\* license_base64, selfie_base64 ends at once with "Missing required fields",
\* verified = false and status 400, and it writes no file: no path of the
\* uploads folder was written by it and it holds no upload or crop path.
C1_MissingFieldsRejected ==
  \A r \in Reqs :
    (Started(r) /\ LacksField(r)) =>
      /\ Done(r)
      /\ Code(r) = "InvalidPayload"
      /\ Resp(r).verified = FALSE
      /\ Resp(r).status = BAD_REQUEST
      /\ writes[r] = <<>>
      /\ OwnedFiles(r) = {}
      /\ \A role \in Roles : ~UploadWritten(r, role) /\ ~CropWritten(r, role)

\* a request that has the two images but no userId was rejected while another
\* request has written its files
C1_Witness ==
  \E r \in Reqs :
    /\ Done(r)
    /\ data[r].body = "object"
    /\ data[r].has = {"license_base64", "selfie_base64"}
    /\ Resp(r).status = BAD_REQUEST
    /\ OwnedFiles(r) = {}
    /\ DOMAIN files # {}

\* ------------------------------------------------------------------- C2
\* C2 as the specification states it: whenever the license image is not
\* decodable (bad base64, or bytes that are no image), no selfie file is
\* written, the selfie is never read or searched for a face, and the request
\* ends with the document decode error.
C2_Original ==
  \A r \in Reqs :
    (AllPresent(r) /\ data[r].license_base64 \in Undecodable) =>
      /\ ~UploadWritten(r, "selfie")
      /\ ~CropWritten(r, "selfie")
      /\ ~InTrace(r, "read_selfie")
      /\ ~InTrace(r, "locate_selfie")
      /\ Done(r) => Code(r) = "DocumentDecodeError"

\* C2 amended: with a license of bad base64 the request ends with the license
\* error of the save (status 400) and nothing of the selfie is written.  With a
\* license whose base64 decodes to bytes that are no image, the selfie upload is
\* saved first: the request ends with the selfie's save error when the selfie is
\* bad base64, and otherwise with "License image error: Could not read image"
\* after the selfie upload was written.  In both cases the selfie is never
\* read back, never searched for a face and never cropped.
C2_DocumentDecodeShortCircuit ==
  \A r \in Reqs :
    (AllPresent(r) /\ data[r].license_base64 \in Undecodable) =>
      /\ ~CropWritten(r, "selfie")
      /\ ~InTrace(r, "read_selfie")
      /\ ~InTrace(r, "locate_selfie")
      /\ data[r].license_base64 = "bad_base64" =>
           /\ ~UploadWritten(r, "selfie")
           /\ ~InTrace(r, "save_selfie")
           /\ Done(r) => /\ Resp(r).error = "License image error: <exception>"
                         /\ Resp(r).status = BAD_REQUEST
      /\ (data[r].license_base64 = "not_image" /\ Done(r)) =>
           IF data[r].selfie_base64 = "bad_base64"
           THEN /\ Resp(r).error = "Selfie image error: <exception>"
                /\ ~UploadWritten(r, "selfie")
           ELSE /\ Resp(r).error = "License image error: Could not read image"
                /\ UploadWritten(r, "selfie")
                /\ image_path[r]["selfie"] \in DOMAIN files

\* both cases have ended: one request with a license of bad base64, another with
\* a license that is no image and a selfie that was saved
C2_Witness ==
  \E r1, r2 \in Reqs :
    /\ AllPresent(r1) /\ Done(r1) /\ data[r1].license_base64 = "bad_base64"
    /\ AllPresent(r2) /\ Done(r2) /\ data[r2].license_base64 = "not_image"
    /\ UploadWritten(r2, "selfie")
    /\ Code(r2) = "DocumentDecodeError"

\* ------------------------------------------------------------------- C3
\* The failure conditions a payload satisfies, by the codes of the specification
Holds(d, code) ==
  CASE code = "InvalidPayload" -> d.has # Fields
    [] code = "DocumentDecodeError" -> d.license_base64 \in Undecodable
    [] code = "SelfieDecodeError" -> d.selfie_base64 \in Undecodable
    [] code = "DocumentFaceNotFound" -> d.license_base64 = "no_face"
    [] code = "SelfieFaceNotFound" -> d.selfie_base64 = "no_face"
    [] OTHER -> FALSE

SpecOrder ==
  <<"InvalidPayload", "DocumentDecodeError", "SelfieDecodeError",
    "DocumentFaceNotFound", "SelfieFaceNotFound">>

\* the first code of an order whose condition holds of d, "none" if none does
RECURSIVE FirstHolding(_, _)
FirstHolding(d, order) ==
  IF order = <<>> THEN "none"
  ELSE IF Holds(d, Head(order)) THEN Head(order)
       ELSE FirstHolding(d, Tail(order))

\* C3 as the specification states it: a finished request of a JSON object
\* returns the earliest code, in the order InvalidPayload, DocumentDecodeError,
\* SelfieDecodeError, DocumentFaceNotFound, SelfieFaceNotFound, whose condition
\* holds; ScoringError, BelowThreshold or success only when none holds.
C3_Original ==
  \A r \in Reqs :
    (Done(r) /\ data[r].body = "object") =>
      IF FirstHolding(data[r], SpecOrder) # "none"
      THEN Code(r) = FirstHolding(data[r], SpecOrder)
      ELSE Code(r) \in {"ScoringError", "BelowThreshold", "none"}

\* The conditions in the order the code tests them, by the message returned
HoldsMessage(d, message) ==
  CASE message = "Missing required fields" -> d.has # Fields
    [] message = "License image error: <exception>" -> d.license_base64 = "bad_base64"
    [] message = "Selfie image error: <exception>" -> d.selfie_base64 = "bad_base64"
    [] message = "License image error: Could not read image"
         -> d.license_base64 = "not_image"
    [] message = "License image error: No face detected in the image"
         -> d.license_base64 = "no_face"
    [] message = "Selfie image error: Could not read image"
         -> d.selfie_base64 = "not_image"
    [] message = "Selfie image error: No face detected in the image"
         -> d.selfie_base64 = "no_face"
    [] OTHER -> FALSE

CodeOrder ==
  <<"Missing required fields",
    "License image error: <exception>",
    "Selfie image error: <exception>",
    "License image error: Could not read image",
    "License image error: No face detected in the image",
    "Selfie image error: Could not read image",
    "Selfie image error: No face detected in the image">>

RECURSIVE FirstMessage(_, _)
FirstMessage(d, order) ==
  IF order = <<>> THEN ""
  ELSE IF HoldsMessage(d, Head(order)) THEN Head(order)
       ELSE FirstMessage(d, Tail(order))

\* C3 amended: every request returns at most one response with one error, and
\* when several failure conditions hold the error returned is the earliest in
\* the order: missing fields, license base64 not decodable, selfie base64 not
\* decodable, license bytes not readable as an image, no face in the license,
\* selfie bytes not readable as an image, no face in the selfie; the scoring
\* error, the below-threshold failure and success occur only when none of these
\* holds, and the server error only for a body that does not parse.
C3_ErrorPriority ==
  \A r \in Reqs :
    /\ answers[r] <= 1
    /\ (Done(r) /\ data[r].body = "object") =>
         IF FirstMessage(data[r], CodeOrder) # ""
         THEN Resp(r).error = FirstMessage(data[r], CodeOrder)
         ELSE Code(r) \in {"ScoringError", "BelowThreshold", "none"}
    /\ (Done(r) /\ data[r].body = "malformed") => Code(r) = "InternalError"

\* the case the specification names: the selfie is no image, the license has no
\* face, and the request has ended with the license's face-not-found error
C3_Witness ==
  \E r \in Reqs :
    /\ Done(r) /\ AllPresent(r)
    /\ data[r].selfie_base64 = "not_image"
    /\ data[r].license_base64 = "no_face"
    /\ Code(r) = "DocumentFaceNotFound"

\* ------------------------------------------------------------------- C4
\* C4: a response carries a similarity score only if both faces were located
\* and cropped and the scorer returned that distance; every response with one
\* of the failure codes (non-JSON, invalid payload, decode, face not found,
\* scoring, internal) has verified = false, an error and no score.
C4_ScoreOnlyAfterScoring ==
  \A r \in Reqs :
    response[r] # <<>> =>
      /\ Resp(r).similarity_score # <<>> =>
           /\ InTrace(r, "locate_license") /\ InTrace(r, "locate_selfie")
           /\ CropWritten(r, "license") /\ CropWritten(r, "selfie")
           /\ InTrace(r, "score")
           /\ similarity_score[r] = Resp(r).similarity_score
      /\ Code(r) \in FailureCodes =>
           /\ Resp(r).verified = FALSE
           /\ Resp(r).error # ""
           /\ Resp(r).similarity_score = <<>>
      /\ Code(r) # "unknown"

\* one request has ended with a score, another with a face-not-found failure
\* after its license face had been cropped
C4_Witness ==
  \E r1, r2 \in Reqs :
    /\ response[r1] # <<>> /\ Resp(r1).similarity_score # <<>>
    /\ response[r2] # <<>> /\ Code(r2) = "SelfieFaceNotFound"
    /\ CropWritten(r2, "license")

C6_Original ==
  \A r \in Reqs :
    Done(r) =>
      /\ Code(r) \in {"NonJson", "InvalidPayload"} => Resp(r).status = BAD_REQUEST
      /\ Code(r) \in {"DocumentDecodeError", "SelfieDecodeError",
                      "DocumentFaceNotFound", "SelfieFaceNotFound",
                      "ScoringError", "BelowThreshold"} =>
           Resp(r).status = OK_STATUS /\ ~Resp(r).verified
      /\ Code(r) = "InternalError" => Resp(r).status = SERVER_ERROR
      /\ Resp(r).status = BAD_REQUEST => Code(r) \in {"NonJson", "InvalidPayload"}

\* C6 amended: status 400 answers exactly the non-JSON request, the request
\* with a missing field and the request one of whose images fails in
\* save_base64_image (base64 not decodable); status 200 answers every result of
\* match_faces: image not readable, face not found, scoring error, below
\* threshold (all with verified = false) and success; status 500 answers
\* exactly the unanticipated exception.
C6_StatusMapping ==
  \A r \in Reqs :
    Done(r) =>
      /\ Resp(r).status \in {BAD_REQUEST, OK_STATUS, SERVER_ERROR}
      /\ Resp(r).status = BAD_REQUEST <=>
           Resp(r).error \in {"Request must be JSON", "Missing required fields",
                              "License image error: <exception>",
                              "Selfie image error: <exception>"}
      /\ Resp(r).status = SERVER_ERROR <=> Code(r) = "InternalError"
      /\ Resp(r).status = OK_STATUS <=>
           Resp(r).error \in {"License image error: Could not read image",
                              "Selfie image error: Could not read image",
                              "License image error: No face detected in the image",
                              "Selfie image error: No face detected in the image",
                              "Processing error: <exception>",
                              "Face verification failed", ""}
      /\ (Resp(r).status = OK_STATUS /\ Resp(r).error # "") => ~Resp(r).verified

\* a selfie of bad base64 was answered with 400 and an unreadable license
\* with 200
C6_Witness ==
  \E r1, r2 \in Reqs :
    /\ Done(r1) /\ Resp(r1).error = "Selfie image error: <exception>"
    /\ Resp(r1).status = BAD_REQUEST
    /\ Done(r2) /\ Resp(r2).error = "License image error: Could not read image"
    /\ Resp(r2).status = OK_STATUS

\* ------------------------------------------------------------------- C7
\* C7: requests that run at once never share a file: two requests have
\* different identifiers, write disjoint sets of paths, every file of the folder
\* holds what the request that keeps its path wrote, and a request reads only
\* contents it wrote itself.
C7_NoSharedArtifacts ==
  \A r1 \in Reqs :
    /\ reads[r1] \subseteq {r1}
    /\ \A p \in Written(r1) : p \in DOMAIN files /\ files[p].owner = r1
    /\ \A r2 \in Reqs \ {r1} :
         /\ Written(r1) \cap Written(r2) = {}
         /\ (unique_id[r1] # "" /\ unique_id[r2] # "") => unique_id[r1] # unique_id[r2]

\* two requests with the same payload (same user, same images) have both run
\* to the end and each has its own four files
C7_Witness ==
  \E r1, r2 \in Reqs :
    /\ r1 # r2
    /\ data[r1] = data[r2]
    /\ Done(r1) /\ Done(r2)
    /\ Cardinality(Written(r1)) = 4 /\ Cardinality(Written(r2)) = 4
    /\ reads[r1] = {r1} /\ reads[r2] = {r2}

\* ------------------------------------------------------------------- C8
Has(r, step) == InTrace(r, step)

\* C8 as the specification states it, with "decoded" read in the way most
\* favourable to it (decoded from base64 and saved): both images are decoded
\* before any face is searched, both faces are located before any crop is
\* written, and the scorer runs only after both crops exist.
C8_Original ==
  \A r \in Reqs :
    /\ (Has(r, "locate_license") \/ Has(r, "locate_selfie")) =>
         (UploadWritten(r, "license") /\ UploadWritten(r, "selfie"))
    /\ (CropWritten(r, "license") \/ CropWritten(r, "selfie")) =>
         (Has(r, "locate_license") /\ Has(r, "locate_selfie"))
    /\ Has(r, "score") => (CropWritten(r, "license") /\ CropWritten(r, "selfie"))

StepOrder ==
  <<"save_license", "save_selfie", "read_license", "locate_license",
    "crop_license", "read_selfie", "locate_selfie", "crop_selfie", "score",
    "decide">>

\* C8 amended: the steps of a request are an initial part of: save the license
\* upload, save the selfie upload, read the license, locate its face, crop it,
\* read the selfie, locate its face, crop it, score, decide.  Both uploads are
\* saved before any face is searched; the license crop is written before the
\* selfie is read or searched; the scorer runs only after both crops exist in
\* the folder.
C8_StageOrder ==
  \A r \in Reqs :
    /\ IsPrefix(trace[r], StepOrder)
    /\ Has(r, "score") =>
         \A role \in Roles : CropWritten(r, role) /\ face_path[r][role] \in DOMAIN files
    /\ Has(r, "read_selfie") => CropWritten(r, "license")

\* the license crop exists and the selfie has not been read yet
C8_Witness ==
  \E r \in Reqs :
    /\ CropWritten(r, "license")
    /\ ~Has(r, "read_selfie")
    /\ UploadWritten(r, "selfie")

\* ------------------------------------------------------------------- C9
C9_Step ==
  \A r \in Reqs :
    /\ Done(r) => /\ pc'[r] = pc[r]
                  /\ response'[r] = response[r]
                  /\ trace'[r] = trace[r]
                  /\ writes'[r] = writes[r]
    /\ response[r] # <<>> => response'[r] = response[r]
    /\ response'[r] # <<>> <=> pc'[r] = "done"
    /\ answers'[r] = IF response'[r] = <<>> THEN 0 ELSE 1
    /\ IsPrefix(trace[r], trace'[r])
    /\ NoDuplicates(trace'[r])
    /\ (response'[r] # <<>> /\ Code(r)' \in FailureCodes) => ~InTrace(r, "decide")'

\* C9: a step that fails ends the request in that very step (the response is
\* set exactly when the request is done); a finished request runs no further
\* step and its response is never changed; a request returns one response; no
\* step is executed twice; a failed request has not reached the decision.
C9_FailureIsTerminal == [][C9_Step]_vars

\* a request ended on a license without a face after four steps while another
\* request, begun later or earlier, is about to score
C9_Witness ==
  \E r1, r2 \in Reqs :
    /\ Done(r1) /\ Code(r1) = "DocumentFaceNotFound"
    /\ trace[r1] = <<"save_license", "save_selfie", "read_license", "locate_license">>
    /\ pc[r2] = "score"

\* ------------------------------------------------------------------ C10
C10_Step ==
  /\ \A p \in DOMAIN files : p \in DOMAIN files' /\ files'[p] = files[p]
  /\ \A r \in Reqs :
       /\ NoDuplicates(writes'[r])
       /\ Len(writes'[r]) <= 4
       /\ \A i \in 1..Len(writes'[r]) : writes'[r][i] \in DOMAIN files'

\* C10: the uploads folder only grows: no step removes a path or changes what
\* a path holds, the at most four paths a request writes are pairwise distinct,
\* and everything a request wrote is still there whatever its outcome.
C10_FolderOnlyGrows == [][C10_Step]_vars

\* failed requests left their files behind: one ended on the selfie's save
\* error with its license upload in the folder, one on a selfie without a face
\* with its two uploads and its license crop in the folder
C10_Witness ==
  \E r1, r2 \in Reqs :
    /\ Done(r1) /\ Resp(r1).error = "Selfie image error: <exception>"
    /\ Len(writes[r1]) = 1 /\ writes[r1][1] \in DOMAIN files
    /\ Done(r2) /\ Code(r2) = "SelfieFaceNotFound"
    /\ Cardinality(OwnedFiles(r2)) = 3

====
